---- MODULE Spec2Model ----
(***************************************************************************)
(* heaptrack gui/parser.cpp: the aggregation done by Parser::parse.        *)
(*                                                                         *)
(*   ParserData (an AccumulatedTraceData) is fed by data.read(): the       *)
(*   callbacks handleAllocation and handleTimeStamp build three charts.    *)
(*   mergeAllocations builds the bottom-up forest from data.allocations,   *)
(*   toTopDownData inverts it into the top-down forest.                    *)
(*                                                                         *)
(* Spec      construction and data.read(): the reading pass with its       *)
(*           callbacks, up to the return of read().                        *)
(* SpecTree  the job from the return of read() on: mergeAllocations and    *)
(*           toTopDownData, over allocation lists drawn from a bounded set *)
(*           (any order, any trace index whose chain ends).                *)
(* SpecWalk  the same job with mergeAllocations taken one iteration of its *)
(*           loops at a time, also over a trace whose chain is a cycle.    *)
(***************************************************************************)
EXTENDS Integers, Sequences, FiniteSets, TLC

VARIABLES
    pc,                  \* position inside the job of Parser::parse
    strings,             \* AccumulatedTraceData::strings, the string table
    allocations,         \* AccumulatedTraceData::allocations
    leaked,              \* AccumulatedTraceData::leaked (live bytes)
    totalAllocated,      \* AccumulatedTraceData::totalAllocated
    totalAllocations,    \* AccumulatedTraceData::totalAllocations
    totalTime,           \* AccumulatedTraceData::totalTime
    timeStamp,           \* the reader's last time stamp (oldStamp of the next)
    activeAllocations,   \* the reader's live allocations (their trace indices)
    maxConsumedSinceLastTimeStamp,
    m_strings,           \* StringCache::m_strings
    m_ipAddresses,       \* StringCache::m_ipAddresses
    consumedChartData,   \* ChartDataWithLabels: [rows, labels, labelIds]
    allocatedChartData,
    allocationsChartData,
    bottomUpData,        \* topRows of mergeAllocations / mergedAllocations
    topDownData,         \* topRows of toTopDownData
    stamps,              \* history: the newStamp of every handleTimeStamp call
    walkAllocation,      \* mergeAllocations: the index of allocation (l. 234)
    walkTraceIndex,      \* mergeAllocations: traceIndex (l. 235)
    walkRows             \* mergeAllocations: rows (l. 236), the pointer to
                         \* the row whose children it is; nullptr: topRows

vars == <<pc, strings, allocations, leaked, totalAllocated, totalAllocations,
          totalTime, timeStamp, activeAllocations,
          maxConsumedSinceLastTimeStamp, m_strings, m_ipAddresses,
          consumedChartData, allocatedChartData, allocationsChartData,
          bottomUpData, topDownData, stamps,
          walkAllocation, walkTraceIndex, walkRows>>

\* the locals of mergeAllocations
walkVars == <<walkAllocation, walkTraceIndex, walkRows>>

-----------------------------------------------------------------------------
(* Bounds of the model.                                                    *)

\* SpecTree: the longest allocation list drawn
MaxAllocs == 3
\* Spec: the largest total trace duration drawn (time stamps are 1..MaxTime)
MaxTime == 2
\* SpecWalk: the number of frames up to which the walk of one allocation is
\* followed; more than a walk over the trace table can have if it ends
MaxWalk == 20

-----------------------------------------------------------------------------
(* Sequences.                                                              *)

\* faulty variant of InsertAt: the element is put at the end
InsertAt_Append(s, i, e) == Append(s, e)

\* insert(it, e): e is put in front of the element at index i
InsertAt(s, i, e) == SubSeq(s, 1, i - 1) \o <<e>> \o SubSeq(s, i, Len(s))

Max(a, b) == IF a >= b THEN a ELSE b

Min(a, b) == IF a <= b THEN a ELSE b

-----------------------------------------------------------------------------
(* QString.  Strings are compared as Qt compares them, by code unit; the   *)
(* order is tabulated over the strings that occur in the model.            *)

QStringOrder ==
    <<"", "0x0", "0x1", "0x10", "0x2", "0x3", "0x4", "0x5", "0x6", "0xa", "A", "B",
      "lib", "main", "total">>

QStringRank(s) == CHOOSE i \in 1..Len(QStringOrder) : QStringOrder[i] = s

\* QString::compare: negative, zero or positive
QStringCompare(a, b) == QStringRank(a) - QStringRank(b)

HexDigits == <<"0", "1", "2", "3", "4", "5", "6", "7", "8", "9",
               "a", "b", "c", "d", "e", "f">>

\* QString::number(n, 16)
RECURSIVE QStringNumber16(_)
QStringNumber16(n) ==
    IF n < 16 THEN HexDigits[n + 1]
    ELSE QStringNumber16(n \div 16) \o HexDigits[(n % 16) + 1]

-----------------------------------------------------------------------------
(* The trace store read by the parser: the input.  Indices are 1-based, 0  *)
(* is the null index.                                                      *)

\* the string table of the file, in file order
StringTable == <<"main", "A", "B", "total", "lib">>

InstructionPointer(ip, fn, fl, md, ln) ==
    [instructionPointer |-> ip, functionIndex |-> fn, fileIndex |-> fl,
     moduleIndex |-> md, line |-> ln]

\* the instruction pointer table of the file
IpTable ==
    <<InstructionPointer(1, 3, 0, 0, 1),    \* 1: B, line 1
      InstructionPointer(2, 3, 0, 0, 2),    \* 2: B, line 2
      InstructionPointer(3, 2, 0, 5, 0),    \* 3: A in lib
      InstructionPointer(4, 1, 0, 0, 0),    \* 4: main (a stop function)
      InstructionPointer(5, 3, 0, 0, 1),    \* 5: B, line 1 at another address
      InstructionPointer(6, 4, 0, 0, 0),    \* 6: a function called total
      InstructionPointer(1, 0, 0, 0, 0),    \* 7..14: unresolved addresses
      InstructionPointer(2, 0, 0, 0, 0),
      InstructionPointer(3, 0, 0, 0, 0),
      InstructionPointer(4, 0, 0, 0, 0),
      InstructionPointer(5, 0, 0, 0, 0),
      InstructionPointer(6, 0, 0, 0, 0),
      InstructionPointer(10, 0, 0, 0, 0),
      InstructionPointer(16, 0, 0, 0, 0)>>

TraceNode(ip, parent) == [ipIndex |-> ip, parentIndex |-> parent]

\* the trace table of the file
TraceTable ==
    <<TraceNode(1, 0),          \* 1: B:1
      TraceNode(3, 0),          \* 2: A
      TraceNode(5, 2),          \* 3: B:1 <- A
      TraceNode(4, 2),          \* 4: main <- A
      TraceNode(2, 4),          \* 5: B:2 <- main <- A
      TraceNode(6, 4),          \* 6: total <- main <- A
      TraceNode(3, 99),         \* 7: A <- (a parent that cannot be followed)
      TraceNode(3, 2),          \* 8: A <- A
      TraceNode(7, 0),          \* 9..16: unresolved addresses
      TraceNode(8, 0),
      TraceNode(9, 4),
      TraceNode(10, 0),
      TraceNode(11, 0),
      TraceNode(12, 0),
      TraceNode(13, 0),
      TraceNode(14, 0),
      TraceNode(3, 1),          \* 17: A <- B:1
      TraceNode(3, 18)>>        \* 18: A <- itself: a chain that is a cycle

\* the function names at which the walk of a stack stops
StopStrings == {"main"}

findTrace(traceIndex) ==
    IF traceIndex = 0 \/ traceIndex > Len(TraceTable) THEN TraceNode(0, 0)
    ELSE TraceTable[traceIndex]

findIp(ipIndex) ==
    IF ipIndex = 0 \/ ipIndex > Len(IpTable) THEN InstructionPointer(0, 0, 0, 0, 0)
    ELSE IpTable[ipIndex]

isStopIndex(strs, index) ==
    index # 0 /\ index <= Len(strs) /\ strs[index] \in StopStrings

-----------------------------------------------------------------------------
(* StringCache.  cache is [m_strings, m_ipAddresses].                      *)

stringify(cache, index) ==
    IF index = 0 \/ index > Len(cache.m_strings) THEN ""
    ELSE cache.m_strings[index]

\* the address string func() leaves in m_ipAddresses
ipAddr(cache, ip) ==
    IF ip.instructionPointer \in DOMAIN cache.m_ipAddresses
       /\ cache.m_ipAddresses[ip.instructionPointer] # ""
    THEN cache.m_ipAddresses[ip.instructionPointer]
    ELSE "0x" \o QStringNumber16(ip.instructionPointer)

func(cache, ip) ==
    IF ip.functionIndex # 0 THEN stringify(cache, ip.functionIndex)
    ELSE ipAddr(cache, ip)

\* m_ipAddresses after func(ip): the hash is mutable and func() fills it
funcCached(cache, ip) ==
    IF ip.functionIndex # 0 THEN cache.m_ipAddresses
    ELSE [a \in DOMAIN cache.m_ipAddresses \cup {ip.instructionPointer} |->
            IF a = ip.instructionPointer THEN ipAddr(cache, ip)
            ELSE cache.m_ipAddresses[a]]

file(cache, ip) ==
    IF ip.fileIndex # 0 THEN stringify(cache, ip.fileIndex) ELSE ""

module(cache, ip) == stringify(cache, ip.moduleIndex)

location(cache, ip) ==
    [function |-> func(cache, ip), file |-> file(cache, ip),
     module |-> module(cache, ip), line |-> ip.line]

\* faulty variant of update: the new strings replace the cached ones
update_Replace(cached, strs) == SubSeq(strs, Len(cached) + 1, Len(strs))

\* m_strings after update(strs): the missing tail of strs is appended
update(cached, strs) ==
    cached \o SubSeq(strs, Len(cached) + 1, Len(strs))

-----------------------------------------------------------------------------
(* LocationData and RowData.                                               *)

\* LocationData::operator==
LocationEq(a, b) ==
    /\ a.function = b.function
    /\ a.file = b.file
    /\ a.module = b.module
    /\ a.line = b.line

\* LocationData::operator<: function, then file, then line, then module
LocationLess(a, b) ==
    LET c1 == QStringCompare(a.function, b.function)
        c2 == IF c1 # 0 THEN c1 ELSE QStringCompare(a.file, b.file)
        c3 == IF c2 # 0 THEN c2 ELSE a.line - b.line
        c4 == IF c3 # 0 THEN c3 ELSE QStringCompare(a.module, b.module)
    IN  c4 < 0

\* a null pointer; a pointer to a row is the row's index path from the top
nullptr == <<>>

RowData(a, p, l, ad, loc, par, ch) ==
    [allocations |-> a, peak |-> p, leaked |-> l, allocated |-> ad,
     location |-> loc, parent |-> par, children |-> ch]

\* faulty variant of lower_bound: std::upper_bound, the first row after loc
RECURSIVE lower_bound_Upper(_, _, _, _)
lower_bound_Upper(rows, first, len, loc) ==
    IF len = 0 THEN first
    ELSE LET half == len \div 2
             mid == first + half
         IN  IF ~LocationLess(loc, rows[mid].location)
             THEN lower_bound_Upper(rows, mid + 1, len - half - 1, loc)
             ELSE lower_bound_Upper(rows, first, half, loc)

\* std::lower_bound(rows.begin(), rows.end(), loc): the binary search over
\* [first, first + len) with RowData::operator<(LocationData)
RECURSIVE lower_bound(_, _, _, _)
lower_bound(rows, first, len, loc) ==
    IF len = 0 THEN first
    ELSE LET half == len \div 2
             mid == first + half
         IN  IF LocationLess(rows[mid].location, loc)
             THEN lower_bound(rows, mid + 1, len - half - 1, loc)
             ELSE lower_bound(rows, first, half, loc)

\* mergeAllocations, l. 243: is the row at it the one looked for
mergeFound(rows, it, loc) ==
    it <= Len(rows) /\ LocationEq(rows[it].location, loc)

\* faulty variant of mergeAddCost: the peak is raised, not added
mergeAddCost_PeakMax(row, allocation) ==
    [row EXCEPT !.allocated = @ + allocation.allocated,
                !.allocations = @ + allocation.allocations,
                !.leaked = @ + allocation.leaked,
                !.peak = Max(@, allocation.peak)]

\* faulty variant of mergeAddCost: the cost is assigned, not added
mergeAddCost_Assign(row, allocation) ==
    [row EXCEPT !.allocated = allocation.allocated,
                !.allocations = allocation.allocations,
                !.leaked = allocation.leaked,
                !.peak = allocation.peak]

\* mergeAllocations, l. 244-247: the allocation's cost added to a row
mergeAddCost(row, allocation) ==
    [row EXCEPT !.allocated = @ + allocation.allocated,
                !.allocations = @ + allocation.allocations,
                !.leaked = @ + allocation.leaked,
                !.peak = @ + allocation.peak]

\* faulty variant of mergeNewRow: peak and leaked change places
mergeNewRow_Swapped(allocation, loc) ==
    RowData(allocation.allocations, allocation.leaked, allocation.peak,
            allocation.allocated, loc, nullptr, <<>>)

\* mergeAllocations, l. 249: the row inserted for a new location
mergeNewRow(allocation, loc) ==
    RowData(allocation.allocations, allocation.peak, allocation.leaked,
            allocation.allocated, loc, nullptr, <<>>)

\* faulty variant of mergeNextIndex: the walk does not stop at a stop frame
mergeNextIndex_NoStop(strs, trace, ip) == trace.parentIndex

\* mergeAllocations, l. 252-256: where the walk goes after a frame: 0 ends it
mergeNextIndex(strs, trace, ip) ==
    IF isStopIndex(strs, ip.functionIndex) THEN 0 ELSE trace.parentIndex

\* mergeAllocations, l. 237-257: the walk of one allocation from traceIndex
\* on, merged into the sibling vector rows; [rows, m_ipAddresses]
RECURSIVE mergeWalk(_, _, _, _, _)
mergeWalk(rows, traceIndex, allocation, cache, strs) ==
    IF traceIndex = 0
    THEN [rows |-> rows, m_ipAddresses |-> cache.m_ipAddresses]
    ELSE LET trace == findTrace(traceIndex)
             ip == findIp(trace.ipIndex)
             loc == location(cache, ip)
             it == lower_bound(rows, 1, Len(rows), loc)
             merged == IF mergeFound(rows, it, loc)
                       THEN [rows EXCEPT ![it] = mergeAddCost(@, allocation)]
                       ELSE InsertAt(rows, it, mergeNewRow(allocation, loc))
             next == mergeNextIndex(strs, trace, ip)
             below == mergeWalk(merged[it].children, next, allocation,
                                [cache EXCEPT !.m_ipAddresses = funcCached(cache, ip)],
                                strs)
         IN  [rows |-> [merged EXCEPT ![it].children = below.rows],
              m_ipAddresses |-> below.m_ipAddresses]

\* mergeAllocations, l. 234: the first trace index of an allocation's walk
mergeStart(allocation) == allocation.traceIndex

\* mergeAllocations, l. 232-258: the loop over the allocations from index i
\* on; [rows, m_ipAddresses]
RECURSIVE mergeLoop(_, _, _, _, _)
mergeLoop(allocs, i, topRows, cache, strs) ==
    IF i > Len(allocs)
    THEN [rows |-> topRows, m_ipAddresses |-> cache.m_ipAddresses]
    ELSE LET walked == mergeWalk(topRows, mergeStart(allocs[i]), allocs[i], cache, strs)
         IN  mergeLoop(allocs, i + 1, walked.rows,
                       [cache EXCEPT !.m_ipAddresses = walked.m_ipAddresses], strs)

\* faulty variant of setParents: the children of a row get the parent of
\* the row, not the row
RECURSIVE setParents_Same(_, _, _)
setParents_Same(children, parent, at) ==
    [i \in 1..Len(children) |->
        [children[i] EXCEPT
            !.parent = parent,
            !.children = setParents_Same(@, parent, at \o <<i>>)]]

\* setParents
RECURSIVE setParents(_, _, _)
setParents(children, parent, at) ==
    [i \in 1..Len(children) |->
        [children[i] EXCEPT
            !.parent = parent,
            !.children = setParents(@, at \o <<i>>, at \o <<i>>)]]

\* the row a pointer refers to
RECURSIVE rowAt(_, _)
rowAt(rows, ptr) ==
    IF Len(ptr) = 1 THEN rows[ptr[1]]
    ELSE rowAt(rows[ptr[1]].children, Tail(ptr))

\* findByLocation: the index of the first row with row's location, 0 if none
findByLocation(row, data) ==
    LET hits == {i \in 1..Len(data) : LocationEq(data[i].location, row.location)}
    IN  IF hits = {} THEN 0 ELSE CHOOSE i \in hits : \A j \in hits : i <= j

\* buildTopDown, l. 285: the empty top-down item of a bottom-up node
topDownNewRow(node) == RowData(0, 0, 0, 0, node.location, nullptr, <<>>)

\* faulty variant of topDownAddCost: the peak is raised, not added
topDownAddCost_PeakMax(data, row) ==
    [data EXCEPT !.allocations = @ + row.allocations,
                 !.peak = Max(@, row.peak),
                 !.leaked = @ + row.leaked,
                 !.allocated = @ + row.allocated]

\* buildTopDown, l. 290-293: the leaf's cost added to a top-down item
topDownAddCost(data, row) ==
    [data EXCEPT !.allocations = @ + row.allocations,
                 !.peak = @ + row.peak,
                 !.leaked = @ + row.leaked,
                 !.allocated = @ + row.allocated]

\* buildTopDown, l. 281-296: the climb from the leaf row up its parent
\* chain; node is the pointer to the current bottom-up node
RECURSIVE bubbleUp(_, _, _, _)
bubbleUp(stack, node, row, bottomUp) ==
    IF node = nullptr THEN stack
    ELSE LET n == rowAt(bottomUp, node)
             found == findByLocation(n, stack)
             grown == IF found = 0 THEN Append(stack, topDownNewRow(n)) ELSE stack
             data == IF found = 0 THEN Len(grown) ELSE found
         IN  [grown EXCEPT
                 ![data] = [topDownAddCost(@, row) EXCEPT
                     !.children = bubbleUp(@, n.parent, row, bottomUp)]]

\* buildTopDown, l. 277: a row without children is a leaf
isLeaf(row) == row.children = <<>>

\* buildTopDown over the rows from index i on; at is the pointer to the
\* parent of these rows, bottomUp the whole bottom-up forest
RECURSIVE buildTopDown(_, _, _, _, _)
buildTopDown(bottomUpRows, i, at, topDown, bottomUp) ==
    IF i > Len(bottomUpRows) THEN topDown
    ELSE LET row == bottomUpRows[i]
             after == IF isLeaf(row)
                      THEN bubbleUp(topDown, at \o <<i>>, row, bottomUp)
                      ELSE buildTopDown(row.children, 1, at \o <<i>>, topDown, bottomUp)
         IN  buildTopDown(bottomUpRows, i + 1, at, after, bottomUp)

\* mergeAllocations; [rows, m_ipAddresses]
mergeAllocations(allocs, cache, strs) ==
    LET merged == mergeLoop(allocs, 1, <<>>, cache, strs)
    IN  [rows |-> setParents(merged.rows, nullptr, <<>>),
         m_ipAddresses |-> merged.m_ipAddresses]

\* toTopDownData
toTopDownData(bottomUp) ==
    setParents(buildTopDown(bottomUp, 1, <<>>, <<>>, bottomUp), nullptr, <<>>)

-----------------------------------------------------------------------------
(* The charts: ChartMergeData, ChartRows, ChartDataWithLabels.             *)

\* i18n("total")
TotalLabel == "total"

\* l. 150: a row takes the first 10 entries of the sorted merge
TopN == 10

ChartRows(stamp, cost) == [timeStamp |-> stamp, cost |-> cost]

\* a hash without entries
EmptyHash == <<>>

\* QHash::insert(key, value): the value of an existing key is replaced
HashInsert(h, key, value) ==
    [k \in DOMAIN h \cup {key} |-> IF k = key THEN value ELSE h[k]]

\* ParserData::ParserData: one chart as constructed
ParserDataChart ==
    [rows |-> <<ChartRows(0, EmptyHash)>>,
     labels |-> EmptyHash,
     labelIds |-> HashInsert(EmptyHash, TotalLabel, 0)]

ChartMergeData(function, consumed, allocs, allocated) ==
    [function |-> function, consumed |-> consumed, allocations |-> allocs,
     allocated |-> allocated]

\* std::lower_bound(mergedData.begin(), mergedData.end(), function) with
\* ChartMergeData::operator<(QString)
RECURSIVE chartLowerBound(_, _, _, _)
chartLowerBound(mergedData, first, len, function) ==
    IF len = 0 THEN first
    ELSE LET half == len \div 2
             mid == first + half
         IN  IF QStringCompare(mergedData[mid].function, function) < 0
             THEN chartLowerBound(mergedData, mid + 1, len - half - 1, function)
             ELSE chartLowerBound(mergedData, first, half, function)

\* handleTimeStamp, l. 135-137
chartAddCost(entry, allocation) ==
    [entry EXCEPT !.allocated = @ + allocation.allocated,
                  !.allocations = @ + allocation.allocations,
                  !.consumed = @ + allocation.leaked]

\* handleTimeStamp, l. 139
chartNewEntry(function, allocation) ==
    ChartMergeData(function, allocation.leaked, allocation.allocations,
                   allocation.allocated)

\* handleTimeStamp, l. 132: the ip whose function an allocation is merged by
chartIp(allocation) == findIp(findTrace(allocation.traceIndex).ipIndex)

\* handleTimeStamp, l. 130-141: the merge over the allocations from index i
\* on; [mergedData, m_ipAddresses]
RECURSIVE chartMerge(_, _, _, _)
chartMerge(allocs, i, mergedData, cache) ==
    IF i > Len(allocs)
    THEN [mergedData |-> mergedData, m_ipAddresses |-> cache.m_ipAddresses]
    ELSE LET ip == chartIp(allocs[i])
             function == func(cache, ip)
             it == chartLowerBound(mergedData, 1, Len(mergedData), function)
             merged ==
                 IF it <= Len(mergedData) /\ mergedData[it].function = function
                 THEN [mergedData EXCEPT ![it] = chartAddCost(@, allocs[i])]
                 ELSE InsertAt(mergedData, it, chartNewEntry(function, allocs[i]))
         IN  chartMerge(allocs, i + 1, merged,
                        [cache EXCEPT !.m_ipAddresses = funcCached(cache, ip)])

\* l. 147-149, the comparison of the sort: left.*member > right.*member
chartGreater(left, right, member) == left[member] > right[member]

\* std::sort of at most 16 entries is libstdc++'s insertion sort: an entry
\* moves towards the front past the entries it is greater than
sortInsert(sorted, e, member) ==
    LET stay == {i \in 1..Len(sorted) : ~chartGreater(e, sorted[i], member)}
        at == IF stay = {} THEN 1
              ELSE 1 + CHOOSE i \in stay : \A j \in stay : j <= i
    IN  InsertAt(sorted, at, e)

RECURSIVE sortFrom(_, _, _, _)
sortFrom(mergedData, i, sorted, member) ==
    IF i > Len(mergedData) THEN sorted
    ELSE sortFrom(mergedData, i + 1, sortInsert(sorted, mergedData[i], member), member)

\* l. 147: sort(mergedData.begin(), mergedData.end(), ...)
sort(mergedData, member) == sortFrom(mergedData, 1, <<>>, member)

\* l. 155-158: the label id of a function; [id, labelIds]
chartLabelId(labelIds, function) ==
    LET found == IF function \in DOMAIN labelIds THEN labelIds
                 ELSE HashInsert(labelIds, function, 0)
        id == IF found[function] = 0
              THEN Cardinality(DOMAIN found) - 1
              ELSE found[function]
    IN  [id |-> id, labelIds |-> HashInsert(found, function, id)]

\* faulty variant of chartLimit: every entry of the merge is visited
chartLimit_All(mergedData) == Len(mergedData)

\* l. 150: the number of entries the loop may visit
chartLimit(mergedData) == Min(TopN, Len(mergedData))

\* l. 150-160: the loop over the sorted entries from index i on;
\* [cost, labelIds]
RECURSIVE chartRowCosts(_, _, _, _, _)
chartRowCosts(sorted, i, member, cost, labelIds) ==
    IF i > chartLimit(sorted) \/ sorted[i][member] = 0
    THEN [cost |-> cost, labelIds |-> labelIds]
    ELSE LET label == chartLabelId(labelIds, sorted[i].function)
         IN  chartRowCosts(sorted, i + 1, member,
                           HashInsert(cost, label.id, sorted[i][member]),
                           label.labelIds)

\* faulty variant of chartAppendRow: the row replaces the last row
chartAppendRow_Overwrite(rows, row) == [rows EXCEPT ![Len(rows)] = row]

\* faulty variant of chartAppendRow: the row is put in front
chartAppendRow_Prepend(rows, row) == <<row>> \o rows

\* l. 161: data->data.rows.append(row)
chartAppendRow(rows, row) == Append(rows, row)

\* faulty variant of chartRowStamp: the row takes the old time stamp
chartRowStamp_Old(oldStamp, newStamp) == oldStamp

\* l. 145: the time stamp of a row
chartRowStamp(oldStamp, newStamp) == newStamp

\* l. 143-161: addChartData up to the appended row; [data, mergedData]:
\* the sort is in place, the next chart starts from this chart's order
addChartData(mergedData, member, data, totalCost, oldStamp, newStamp) ==
    LET sorted == sort(mergedData, member)
        filled == chartRowCosts(sorted, 1, member,
                                HashInsert(EmptyHash, 0, totalCost), data.labelIds)
        row == ChartRows(chartRowStamp(oldStamp, newStamp), filled.cost)
    IN  [data |-> [data EXCEPT !.rows = chartAppendRow(@, row),
                               !.labelIds = filled.labelIds],
         mergedData |-> sorted]

\* l. 163: is this the time stamp at which the labels are converted
chartIsFinal(newStamp, total) == newStamp = total

\* the names labelIds maps to id
chartNamesOf(labelIds, id) == {n \in DOMAIN labelIds : labelIds[n] = id}

\* l. 166-168 for the ids in left: the label hashes the inserts can leave
RECURSIVE chartInserted(_, _, _)
chartInserted(labels, labelIds, left) ==
    IF left = {} THEN {labels}
    ELSE LET id == CHOOSE i \in left : TRUE
         IN  UNION {chartInserted(HashInsert(labels, id, n), labelIds, left \ {id}) :
                    n \in chartNamesOf(labelIds, id)}

\* l. 165-168: the label hashes the conversion can leave.  Every (name, id)
\* of labelIds is inserted; of two names with one id the one the hash
\* iterates last stays, and the iteration order of a QHash is not fixed
chartLabels(labels, labelIds) ==
    chartInserted(labels, labelIds, {labelIds[n] : n \in DOMAIN labelIds})

\* l. 163-169: the charts a call of addChartData can leave
chartFinalized(data, newStamp, total) ==
    IF chartIsFinal(newStamp, total)
    THEN {[data EXCEPT !.labels = l] : l \in chartLabels(data.labels, data.labelIds)}
    ELSE {data}

\* handleTimeStamp, l. 127 and handleAllocation, l. 179
watermark(maxConsumed, live) == Max(maxConsumed, live)

-----------------------------------------------------------------------------
(* ParserData and its callbacks.                                           *)

\* the ParserData of the job, as a record
ParserData ==
    [strings |-> strings, allocations |-> allocations, leaked |-> leaked,
     totalAllocated |-> totalAllocated, totalAllocations |-> totalAllocations,
     totalTime |-> totalTime,
     maxConsumedSinceLastTimeStamp |-> maxConsumedSinceLastTimeStamp,
     m_strings |-> m_strings, m_ipAddresses |-> m_ipAddresses,
     consumedChartData |-> consumedChartData,
     allocatedChartData |-> allocatedChartData,
     allocationsChartData |-> allocationsChartData]

\* ParserData::ParserData over an AccumulatedTraceData whose trace lasts total
ParserDataNew(total) ==
    [strings |-> <<>>, allocations |-> <<>>, leaked |-> 0,
     totalAllocated |-> 0, totalAllocations |-> 0, totalTime |-> total,
     maxConsumedSinceLastTimeStamp |-> 0,
     m_strings |-> <<>>, m_ipAddresses |-> EmptyHash,
     consumedChartData |-> ParserDataChart,
     allocatedChartData |-> ParserDataChart,
     allocationsChartData |-> ParserDataChart]

\* handleTimeStamp: the ParserData records a call can leave (one, unless the
\* conversion of the labels meets two names with one id)
handleTimeStamp(d, oldStamp, newStamp) ==
    LET cached == update(d.m_strings, d.strings)
        maxConsumed == watermark(d.maxConsumedSinceLastTimeStamp, d.leaked)
        merged == chartMerge(d.allocations, 1, <<>>,
                             [m_strings |-> cached, m_ipAddresses |-> d.m_ipAddresses])
        consumed == addChartData(merged.mergedData, "consumed",
                                 d.consumedChartData, maxConsumed, oldStamp, newStamp)
        allocated == addChartData(consumed.mergedData, "allocated",
                                  d.allocatedChartData, d.totalAllocated,
                                  oldStamp, newStamp)
        allocs == addChartData(allocated.mergedData, "allocations",
                               d.allocationsChartData, d.totalAllocations,
                               oldStamp, newStamp)
    IN  {[d EXCEPT !.m_strings = cached,
                   !.m_ipAddresses = merged.m_ipAddresses,
                   !.consumedChartData = c1,
                   !.allocatedChartData = c2,
                   !.allocationsChartData = c3,
                   !.maxConsumedSinceLastTimeStamp = 0] :
         c1 \in chartFinalized(consumed.data, newStamp, d.totalTime),
         c2 \in chartFinalized(allocated.data, newStamp, d.totalTime),
         c3 \in chartFinalized(allocs.data, newStamp, d.totalTime)}

\* handleAllocation
handleAllocation(d) ==
    [d EXCEPT !.maxConsumedSinceLastTimeStamp = watermark(@, d.leaked)]

\* the variables of ParserData take the fields of d
Becomes(d) ==
    /\ strings' = d.strings
    /\ allocations' = d.allocations
    /\ leaked' = d.leaked
    /\ totalAllocated' = d.totalAllocated
    /\ totalAllocations' = d.totalAllocations
    /\ totalTime' = d.totalTime
    /\ maxConsumedSinceLastTimeStamp' = d.maxConsumedSinceLastTimeStamp
    /\ m_strings' = d.m_strings
    /\ m_ipAddresses' = d.m_ipAddresses
    /\ consumedChartData' = d.consumedChartData
    /\ allocatedChartData' = d.allocatedChartData
    /\ allocationsChartData' = d.allocationsChartData

-----------------------------------------------------------------------------
(* data.read(): the reader of AccumulatedTraceData delivers the file.  The *)
(* traces are allocated from in the order of the trace table, a string is  *)
(* read before the first trace that needs it, time stamps grow and the     *)
(* last one is totalTime.                                                  *)

\* the bytes of the allocation made from trace t
AllocSize(t) == (t % 3) + 1

\* the traces whose allocation the file frees again
FreedTraces == {1}

ipStrings(ip) == Max(ip.functionIndex, Max(ip.fileIndex, ip.moduleIndex))

\* the strings the frames of trace t refer to (the callers of a trace are
\* written before it, or are not in the file)
RECURSIVE traceStrings(_)
traceStrings(t) ==
    IF t = 0 \/ t > Len(TraceTable) THEN 0
    ELSE Max(ipStrings(findIp(TraceTable[t].ipIndex)),
             IF TraceTable[t].parentIndex < t
             THEN traceStrings(TraceTable[t].parentIndex) ELSE 0)

\* the trace of the next allocation
nextTrace == Len(allocations) + 1

AllocationData(t, n, peakBytes, live, bytes) ==
    [traceIndex |-> t, allocations |-> n, peak |-> peakBytes, leaked |-> live,
     allocated |-> bytes]

\* an "s" line
ReadString ==
    /\ pc = "read"
    /\ nextTrace <= Len(TraceTable)
    /\ Len(strings) < traceStrings(nextTrace)
    /\ strings' = Append(strings, StringTable[Len(strings) + 1])
    /\ UNCHANGED <<pc, allocations, leaked, totalAllocated, totalAllocations,
                   totalTime, timeStamp, activeAllocations,
                   maxConsumedSinceLastTimeStamp, m_strings, m_ipAddresses,
                   consumedChartData, allocatedChartData, allocationsChartData,
                   bottomUpData, topDownData, stamps>>
    /\ UNCHANGED walkVars

\* a "+" line: the allocation is recorded, then handleAllocation is called
ReadAllocation ==
    /\ pc = "read"
    /\ nextTrace <= Len(TraceTable)
    /\ Len(strings) >= traceStrings(nextTrace)
    /\ LET size == AllocSize(nextTrace)
           d == [ParserData EXCEPT
                    !.allocations = Append(@, AllocationData(nextTrace, 1, size, size, size)),
                    !.leaked = @ + size,
                    !.totalAllocated = @ + size,
                    !.totalAllocations = @ + 1]
       IN  Becomes(handleAllocation(d))
    /\ activeAllocations' = activeAllocations \cup {nextTrace}
    /\ UNCHANGED <<pc, timeStamp, bottomUpData, topDownData, stamps>>
    /\ UNCHANGED walkVars

\* a "-" line: no callback
ReadFree(t) ==
    /\ pc = "read"
    /\ t \in activeAllocations
    /\ LET size == AllocSize(t)
       IN  Becomes([ParserData EXCEPT !.allocations[t].leaked = @ - size,
                                      !.leaked = @ - size])
    /\ activeAllocations' = activeAllocations \ {t}
    /\ UNCHANGED <<pc, timeStamp, bottomUpData, topDownData, stamps>>
    /\ UNCHANGED walkVars

\* a "c" line, and the end of the file: handleTimeStamp is called with the
\* last and the new time stamp; read() returns after the one at totalTime
ReadTimeStamp(newStamp) ==
    /\ pc = "read"
    /\ \E d \in handleTimeStamp(ParserData, timeStamp, newStamp) : Becomes(d)
    /\ timeStamp' = newStamp
    /\ stamps' = Append(stamps, newStamp)
    /\ pc' = IF newStamp = totalTime THEN "merge" ELSE "read"
    /\ UNCHANGED <<activeAllocations, bottomUpData, topDownData>>
    /\ UNCHANGED walkVars

-----------------------------------------------------------------------------
(* Parser::parse after read().                                             *)

\* l. 328: const auto mergedAllocations = mergeAllocations(data)
MergeAllocations ==
    /\ pc = "merge"
    /\ LET merged == mergeAllocations(allocations,
                        [m_strings |-> m_strings, m_ipAddresses |-> m_ipAddresses],
                        strings)
       IN  /\ bottomUpData' = merged.rows
           /\ m_ipAddresses' = merged.m_ipAddresses
    /\ pc' = "topDown"
    /\ UNCHANGED <<strings, allocations, leaked, totalAllocated, totalAllocations,
                   totalTime, timeStamp, activeAllocations,
                   maxConsumedSinceLastTimeStamp, m_strings,
                   consumedChartData, allocatedChartData, allocationsChartData,
                   topDownData, stamps>>
    /\ UNCHANGED walkVars

\* l. 333: const auto topDownData = toTopDownData(mergedAllocations)
ToTopDownData ==
    /\ pc = "topDown"
    /\ topDownData' = toTopDownData(bottomUpData)
    /\ pc' = "done"
    /\ UNCHANGED <<strings, allocations, leaked, totalAllocated, totalAllocations,
                   totalTime, timeStamp, activeAllocations,
                   maxConsumedSinceLastTimeStamp, m_strings, m_ipAddresses,
                   consumedChartData, allocatedChartData, allocationsChartData,
                   bottomUpData, stamps>>
    /\ UNCHANGED walkVars

-----------------------------------------------------------------------------
(* mergeAllocations, one step of a loop at a time.  pc is "for" at the     *)
(* head of the loop over the allocations and "while" at the head of the    *)
(* walk of one allocation.                                                 *)

\* the vector a rows pointer refers to: topRows or the children of a row
vectorAt(forest, ptr) ==
    IF ptr = nullptr THEN forest ELSE rowAt(forest, ptr).children

\* the forest after the vector a rows pointer refers to has become vector
RECURSIVE vectorPut(_, _, _)
vectorPut(forest, ptr, vector) ==
    IF ptr = nullptr THEN vector
    ELSE [forest EXCEPT ![Head(ptr)].children = vectorPut(@, Tail(ptr), vector)]

\* l. 234-236: the next allocation, its walk starts at topRows
WalkBegin ==
    /\ pc = "for"
    /\ walkAllocation < Len(allocations)
    /\ walkAllocation' = walkAllocation + 1
    /\ walkTraceIndex' = mergeStart(allocations[walkAllocation + 1])
    /\ walkRows' = nullptr
    /\ pc' = "while"
    /\ UNCHANGED <<strings, allocations, leaked, totalAllocated, totalAllocations,
                   totalTime, timeStamp, activeAllocations,
                   maxConsumedSinceLastTimeStamp, m_strings, m_ipAddresses,
                   consumedChartData, allocatedChartData, allocationsChartData,
                   bottomUpData, topDownData, stamps>>

\* l. 237-256: the body of the walk for the frame at traceIndex
WalkFrame ==
    /\ pc = "while"
    /\ walkTraceIndex # 0
    /\ Len(walkRows) < MaxWalk
    /\ LET allocation == allocations[walkAllocation]
           cache == [m_strings |-> m_strings, m_ipAddresses |-> m_ipAddresses]
           trace == findTrace(walkTraceIndex)
           ip == findIp(trace.ipIndex)
           loc == location(cache, ip)
           rows == vectorAt(bottomUpData, walkRows)
           it == lower_bound(rows, 1, Len(rows), loc)
           merged == IF mergeFound(rows, it, loc)
                     THEN [rows EXCEPT ![it] = mergeAddCost(@, allocation)]
                     ELSE InsertAt(rows, it, mergeNewRow(allocation, loc))
       IN  /\ bottomUpData' = vectorPut(bottomUpData, walkRows, merged)
           /\ m_ipAddresses' = funcCached(cache, ip)
           /\ IF isStopIndex(strings, ip.functionIndex)
              THEN /\ pc' = "for"
                   /\ UNCHANGED <<walkTraceIndex, walkRows>>
              ELSE /\ walkTraceIndex' = trace.parentIndex
                   /\ walkRows' = walkRows \o <<it>>
                   /\ pc' = "while"
    /\ UNCHANGED <<strings, allocations, leaked, totalAllocated, totalAllocations,
                   totalTime, timeStamp, activeAllocations,
                   maxConsumedSinceLastTimeStamp, m_strings,
                   consumedChartData, allocatedChartData, allocationsChartData,
                   topDownData, stamps, walkAllocation>>

\* l. 237: the walk ends at the null index
WalkEnd ==
    /\ pc = "while"
    /\ walkTraceIndex = 0
    /\ pc' = "for"
    /\ UNCHANGED <<strings, allocations, leaked, totalAllocated, totalAllocations,
                   totalTime, timeStamp, activeAllocations,
                   maxConsumedSinceLastTimeStamp, m_strings, m_ipAddresses,
                   consumedChartData, allocatedChartData, allocationsChartData,
                   bottomUpData, topDownData, stamps>>
    /\ UNCHANGED walkVars

\* l. 259-261: after the last allocation the parents are set and topRows
\* is returned
WalkReturn ==
    /\ pc = "for"
    /\ walkAllocation = Len(allocations)
    /\ bottomUpData' = setParents(bottomUpData, nullptr, <<>>)
    /\ pc' = "topDown"
    /\ UNCHANGED <<strings, allocations, leaked, totalAllocated, totalAllocations,
                   totalTime, timeStamp, activeAllocations,
                   maxConsumedSinceLastTimeStamp, m_strings, m_ipAddresses,
                   consumedChartData, allocatedChartData, allocationsChartData,
                   topDownData, stamps>>
    /\ UNCHANGED walkVars

-----------------------------------------------------------------------------
(* The specifications.                                                     *)

Init ==
    /\ pc = "read"
    /\ \E total \in 1..MaxTime :
        LET d == ParserDataNew(total)
        IN  /\ strings = d.strings
            /\ allocations = d.allocations
            /\ leaked = d.leaked
            /\ totalAllocated = d.totalAllocated
            /\ totalAllocations = d.totalAllocations
            /\ totalTime = d.totalTime
            /\ maxConsumedSinceLastTimeStamp = d.maxConsumedSinceLastTimeStamp
            /\ m_strings = d.m_strings
            /\ m_ipAddresses = d.m_ipAddresses
            /\ consumedChartData = d.consumedChartData
            /\ allocatedChartData = d.allocatedChartData
            /\ allocationsChartData = d.allocationsChartData
    /\ timeStamp = 0
    /\ activeAllocations = {}
    /\ bottomUpData = <<>>
    /\ topDownData = <<>>
    /\ stamps = <<>>
    /\ walkAllocation = 0
    /\ walkTraceIndex = 0
    /\ walkRows = nullptr

Next ==
    \/ ReadString
    \/ ReadAllocation
    \/ \E t \in FreedTraces : ReadFree(t)
    \/ \E newStamp \in (timeStamp + 1)..totalTime : ReadTimeStamp(newStamp)

Spec == Init /\ [][Next]_vars

\* the allocation records SpecTree draws: any trace of the table with a
\* resolved function and a chain that ends, the null index and an index
\* beyond the trace table
TreeTraces == {0, 1, 2, 3, 4, 5, 6, 7, 8, 17, Len(TraceTable) + 1}

\* the cost of the record drawn for trace t
TreeCost(t) ==
    IF t % 2 = 0 THEN AllocationData(t, 2, 3, 1, 5) ELSE AllocationData(t, 1, 2, 0, 2)

TreeAllocations == {TreeCost(t) : t \in TreeTraces}

RECURSIVE SumField(_, _)
SumField(rows, member) ==
    IF rows = <<>> THEN 0 ELSE Head(rows)[member] + SumField(Tail(rows), member)

\* the ParserData read() leaves for an allocation list: the strings read
\* and the one time stamp of a trace that lasts 1
InitTree ==
    /\ pc = "merge"
    /\ \E n \in 0..MaxAllocs : \E allocs \in [1..n -> TreeAllocations] :
        LET d == [ParserDataNew(1) EXCEPT
                     !.strings = StringTable,
                     !.allocations = allocs,
                     !.leaked = SumField(allocs, "leaked"),
                     !.totalAllocated = SumField(allocs, "allocated"),
                     !.totalAllocations = SumField(allocs, "allocations"),
                     !.maxConsumedSinceLastTimeStamp = SumField(allocs, "leaked")]
        IN  \E e \in handleTimeStamp(d, 0, 1) :
            /\ strings = e.strings
            /\ allocations = e.allocations
            /\ leaked = e.leaked
            /\ totalAllocated = e.totalAllocated
            /\ totalAllocations = e.totalAllocations
            /\ totalTime = e.totalTime
            /\ maxConsumedSinceLastTimeStamp = e.maxConsumedSinceLastTimeStamp
            /\ m_strings = e.m_strings
            /\ m_ipAddresses = e.m_ipAddresses
            /\ consumedChartData = e.consumedChartData
            /\ allocatedChartData = e.allocatedChartData
            /\ allocationsChartData = e.allocationsChartData
    /\ timeStamp = 1
    /\ activeAllocations = {}
    /\ bottomUpData = <<>>
    /\ topDownData = <<>>
    /\ stamps = <<1>>
    /\ walkAllocation = 0
    /\ walkTraceIndex = 0
    /\ walkRows = nullptr

NextTree ==
    \/ MergeAllocations
    \/ ToTopDownData

SpecTree == InitTree /\ [][NextTree]_vars

\* the allocation records SpecWalk draws: traces whose chain ends at the
\* null index, at a stop frame or at a parent that is not in the table,
\* the trace whose chain is a cycle and an index beyond the trace table
WalkTraces == {1, 3, 5, 7, 8, 18, Len(TraceTable) + 1}

WalkAllocations == {TreeCost(t) : t \in WalkTraces}

\* the ParserData read() leaves for an allocation list, at the call of
\* mergeAllocations
InitWalk ==
    /\ pc = "for"
    /\ \E n \in 0..MaxAllocs : \E allocs \in [1..n -> WalkAllocations] :
        LET d == [ParserDataNew(1) EXCEPT
                     !.strings = StringTable,
                     !.allocations = allocs,
                     !.leaked = SumField(allocs, "leaked"),
                     !.totalAllocated = SumField(allocs, "allocated"),
                     !.totalAllocations = SumField(allocs, "allocations"),
                     !.maxConsumedSinceLastTimeStamp = SumField(allocs, "leaked")]
        IN  \E e \in handleTimeStamp(d, 0, 1) :
            /\ strings = e.strings
            /\ allocations = e.allocations
            /\ leaked = e.leaked
            /\ totalAllocated = e.totalAllocated
            /\ totalAllocations = e.totalAllocations
            /\ totalTime = e.totalTime
            /\ maxConsumedSinceLastTimeStamp = e.maxConsumedSinceLastTimeStamp
            /\ m_strings = e.m_strings
            /\ m_ipAddresses = e.m_ipAddresses
            /\ consumedChartData = e.consumedChartData
            /\ allocatedChartData = e.allocatedChartData
            /\ allocationsChartData = e.allocationsChartData
    /\ timeStamp = 1
    /\ activeAllocations = {}
    /\ bottomUpData = <<>>
    /\ topDownData = <<>>
    /\ stamps = <<1>>
    /\ walkAllocation = 0
    /\ walkTraceIndex = 0
    /\ walkRows = nullptr

NextWalk ==
    \/ WalkBegin
    \/ WalkFrame
    \/ WalkEnd
    \/ WalkReturn
    \/ ToTopDownData

SpecWalk == InitWalk /\ [][NextWalk]_vars

-----------------------------------------------------------------------------
(* Properties of the forests.                                              *)

CostFields == {"allocations", "peak", "leaked", "allocated"}

\* mergeAllocations has returned
Merged == pc \in {"topDown", "done"}

\* toTopDownData has returned
Inverted == pc = "done"

\* the pointers to all rows of a forest: their index paths
RECURSIVE RowsBelow(_, _)
RowsBelow(rows, at) ==
    UNION {{at \o <<i>>} \cup RowsBelow(rows[i].children, at \o <<i>>) :
           i \in 1..Len(rows)}

RowsOf(forest) == RowsBelow(forest, <<>>)

\* the locations from the top level down to the row at ptr
LocationPath(forest, ptr) ==
    [k \in 1..Len(ptr) |-> rowAt(forest, SubSeq(ptr, 1, k)).location]

\* the sibling vector a row lives in
SiblingsOf(forest, ptr) ==
    IF Len(ptr) = 1 THEN forest
    ELSE rowAt(forest, SubSeq(ptr, 1, Len(ptr) - 1)).children

\* the string cache of the job
StringCache == [m_strings |-> m_strings, m_ipAddresses |-> m_ipAddresses]

\* the call stack of a trace index: the locations of its frames from the
\* leaf frame towards its callers, up to and including the first stop frame
RECURSIVE StackOf(_)
StackOf(traceIndex) ==
    IF traceIndex = 0 THEN <<>>
    ELSE LET trace == findTrace(traceIndex)
             ip == findIp(trace.ipIndex)
         IN  <<location(StringCache, ip)>> \o
             (IF isStopIndex(strings, ip.functionIndex) THEN <<>>
              ELSE StackOf(trace.parentIndex))

IsPrefix(p, q) == Len(p) <= Len(q) /\ SubSeq(q, 1, Len(p)) = p

\* C1 (as claimed): for any nonempty allocation set, once the top-down
\* forest is built, the sum of each cost field over the top-level rows of the
\* top-down forest equals the sum over the top-level rows of the bottom-up
\* forest.
C1_Conservation ==
    (Inverted /\ allocations # <<>>) =>
        \A m \in CostFields : SumField(topDownData, m) = SumField(bottomUpData, m)

\* C2 (as claimed): after mergeAllocations, the sum of each cost field over
\* the top-level rows of the bottom-up forest equals the sum of the field
\* over all allocation records.
C2_RootSumAllRecords ==
    Merged => \A m \in CostFields :
        SumField(bottomUpData, m) = SumField(allocations, m)

HasTrace(allocation) == allocation.traceIndex # 0

\* C2 (amended): after mergeAllocations, the sum of each cost field over the
\* top-level rows of the bottom-up forest equals the sum of the field over
\* the allocation records whose trace index is not the null index 0; a
\* record with trace index 0 is added to no row.
C2_RootSumTracedRecords ==
    Merged => \A m \in CostFields :
        SumField(bottomUpData, m) = SumField(SelectSeq(allocations, HasTrace), m)

\* C2 witness: a list with a traced and an untraced record has been merged
C2_Witness ==
    /\ Merged
    /\ \E i, j \in 1..Len(allocations) :
          allocations[i].traceIndex = 0 /\ allocations[j].traceIndex # 0
    /\ Len(bottomUpData) >= 1

\* no two rows of one sibling vector have equal locations, at any depth
NoEqualSiblings(forest) ==
    \A ptr \in RowsOf(forest) :
        LET siblings == SiblingsOf(forest, ptr)
        IN  \A i, j \in 1..Len(siblings) :
                LocationEq(siblings[i].location, siblings[j].location) => i = j

\* C3: in every state, no sibling vector (the top level or the children of a
\* row) of the bottom-up forest or of the top-down forest holds two rows
\* with equal locations (function, file, module and line all equal).
C3_NoEqualSiblings ==
    NoEqualSiblings(bottomUpData) /\ NoEqualSiblings(topDownData)

\* C3 witness: both forests are built, two records with the same leaf
\* location were merged into one bottom-up row, and two bottom-up leaves
\* were merged into one top-down row, which has two children
C3_Witness ==
    /\ Inverted
    /\ \E i, j \in 1..Len(allocations) :
          /\ i < j
          /\ StackOf(allocations[i].traceIndex) # <<>>
          /\ StackOf(allocations[j].traceIndex) # <<>>
          /\ LocationEq(StackOf(allocations[i].traceIndex)[1],
                        StackOf(allocations[j].traceIndex)[1])
    /\ \E i \in 1..Len(topDownData) : Len(topDownData[i].children) >= 2

\* C4: after mergeAllocations, each cost field of every bottom-up row equals
\* the sum of the field over exactly the allocation records whose call
\* stack, from the leaf frame on, starts with the locations from the top
\* level down to the row.
C4_BottomUpNodeCost ==
    Merged => \A ptr \in RowsOf(bottomUpData) : \A m \in CostFields :
        LET path == LocationPath(bottomUpData, ptr)
            Through(allocation) == IsPrefix(path, StackOf(allocation.traceIndex))
        IN  rowAt(bottomUpData, ptr)[m] = SumField(SelectSeq(allocations, Through), m)

\* C4 witness: a row below the top level holds the cost of two records
\* while its parent holds more
C4_Witness ==
    /\ Merged
    /\ \E ptr \in RowsOf(bottomUpData) :
          /\ Len(ptr) = 2
          /\ Len(SelectSeq(allocations,
                 LAMBDA a : IsPrefix(LocationPath(bottomUpData, ptr),
                                     StackOf(a.traceIndex)))) = 2
          /\ rowAt(bottomUpData, ptr).allocated
                 < rowAt(bottomUpData, SubSeq(ptr, 1, 1)).allocated

-----------------------------------------------------------------------------
(* Properties of the charts.                                               *)

Charts == <<consumedChartData, allocatedChartData, allocationsChartData>>

ChartIds == 1..3

\* the number of handleTimeStamp calls so far
TimeStampEvents == Len(stamps)

\* the entries of a row
Entries(row) == DOMAIN row.cost

\* C5 (as claimed): each chart holds as many rows as time stamp events were
\* processed.
C5_RowsEqualEvents ==
    \A c \in ChartIds : Len(Charts[c].rows) = TimeStampEvents

\* C5 (amended): each chart holds one row more than time stamp events were
\* processed: the row the constructor puts at the origin, then one row per
\* event.
C5_RowsEqualEventsPlusOrigin ==
    \A c \in ChartIds : Len(Charts[c].rows) = TimeStampEvents + 1

\* C5 witness: two time stamp events have been processed
C5_Witness ==
    TimeStampEvents = 2 /\ Len(allocations) >= 2

\* C6 (as claimed): every row of every chart has at most 11 entries and an
\* entry for id 0.
C6_RowBounds ==
    \A c \in ChartIds : \A i \in 1..Len(Charts[c].rows) :
        /\ Cardinality(Entries(Charts[c].rows[i])) <= 11
        /\ 0 \in Entries(Charts[c].rows[i])

\* C6 (amended): every row of every chart has at most 11 entries; every row
\* appended by a time stamp event has an entry for id 0, and the first row,
\* put at the origin by the constructor, has no entry at all.
C6_RowBoundsButOrigin ==
    \A c \in ChartIds : \A i \in 1..Len(Charts[c].rows) :
        /\ Cardinality(Entries(Charts[c].rows[i])) <= 11
        /\ i > 1 => 0 \in Entries(Charts[c].rows[i])
        /\ i = 1 => Entries(Charts[c].rows[i]) = {}

\* C6 witness: more than 10 functions have allocated and a row holds 11
\* entries
C6_Witness ==
    /\ Len(allocations) > 11
    /\ \E i \in 1..Len(allocatedChartData.rows) :
          Cardinality(Entries(allocatedChartData.rows[i])) = 11

\* a time stamp event at the final time stamp of the trace was processed
FinalProcessed == \E i \in 1..Len(stamps) : stamps[i] = totalTime

\* the label ids a chart has recorded a cost under, and id 0
AssignedIds(c) ==
    {0} \cup UNION {Entries(Charts[c].rows[i]) : i \in 1..Len(Charts[c].rows)}

\* C7 (as claimed): the labels of a chart are populated if and only if a
\* time stamp event at totalTime was processed, and once populated they
\* have an entry for every label id assigned for the chart, id 0 included.
C7_Finalization ==
    \A c \in ChartIds :
        /\ (DOMAIN Charts[c].labels # {}) <=> FinalProcessed
        /\ (DOMAIN Charts[c].labels # {}) =>
               AssignedIds(c) \subseteq DOMAIN Charts[c].labels

\* C8: the rows of each chart have strictly increasing time stamps, and the
\* rows after the origin row carry the time stamps of the events in the
\* order of their delivery.
C8_RowsIncrease ==
    \A c \in ChartIds :
        /\ \A i \in 1..(Len(Charts[c].rows) - 1) :
               Charts[c].rows[i].timeStamp < Charts[c].rows[i + 1].timeStamp
        /\ Len(Charts[c].rows) = Len(stamps) + 1
        /\ \A k \in 1..Len(stamps) : Charts[c].rows[k + 1].timeStamp = stamps[k]

\* C8 witness: two events were delivered, the second later than the first
C8_Witness ==
    /\ Len(stamps) = 2
    /\ stamps[1] < stamps[2]
    /\ Len(consumedChartData.rows) = 3

\* the rows of chart c are kept by the step
RowsKept(c) ==
    /\ Len(Charts[c].rows') >= Len(Charts[c].rows)
    /\ SubSeq(Charts[c].rows', 1, Len(Charts[c].rows)) = Charts[c].rows

\* C10: every step, a time stamp event included, leaves all rows of all
\* three charts as they are (time stamp and entries) and only appends.
C10_RowsAppendOnly ==
    [][\A c \in ChartIds : RowsKept(c)]_vars

\* C10 witness: a second event was processed after a row with the costs of
\* contributors had been appended, and the allocations changed in between
C10_Witness ==
    /\ Len(stamps) = 2
    /\ Cardinality(Entries(consumedChartData.rows[2])) >= 2
    /\ Entries(consumedChartData.rows[3]) # Entries(consumedChartData.rows[2])

\* the first row of chart c that has an entry for id
FirstRow(c, id) ==
    CHOOSE i \in 1..Len(Charts[c].rows) :
        /\ id \in Entries(Charts[c].rows[i])
        /\ \A j \in 1..(i - 1) : id \notin Entries(Charts[c].rows[j])

\* C11 (as claimed): in every chart the total label keeps id 0, two
\* different names never share an id, the ids given out are 0, 1, 2, ...
\* without a gap, and they are given out in the order in which the names
\* first appear in a row (an id first recorded in a later row is larger).
C11_LabelIds ==
    \A c \in ChartIds :
        LET ids == Charts[c].labelIds
        IN  /\ ids[TotalLabel] = 0
            /\ \A a, b \in DOMAIN ids : ids[a] = ids[b] => a = b
            /\ {ids[n] : n \in DOMAIN ids} = 0..(Cardinality(DOMAIN ids) - 1)
            /\ \A i, j \in AssignedIds(c) \ {0} :
                   i < j => FirstRow(c, i) <= FirstRow(c, j)

\* the field of an allocation record a chart is about
ChartField == <<"leaked", "allocated", "allocations">>

\* the function name of the leaf frame of an allocation record
LeafFunction(allocation) == func(StringCache, chartIp(allocation))

\* the functions of the leaf frames of the known allocation records
LeafFunctions == {LeafFunction(allocations[i]) : i \in 1..Len(allocations)}

\* the merged value of a function for chart c: the sum of the chart's field
\* over the known allocation records whose leaf frame resolves to it
MergedValue(c, function) ==
    LET Of(allocation) == LeafFunction(allocation) = function
    IN  SumField(SelectSeq(allocations, Of), ChartField[c])

\* the last row of chart c
LastRow(c) == Charts[c].rows[Len(Charts[c].rows)]

\* the functions the last row of chart c has an entry for
Recorded(c) ==
    {f \in LeafFunctions :
        /\ f \in DOMAIN Charts[c].labelIds
        /\ Charts[c].labelIds[f] # 0
        /\ Charts[c].labelIds[f] \in Entries(LastRow(c))}

\* the last row of chart c holds the top 10 of the merge of the allocations
TopSelected(c) ==
    LET ids == Charts[c].labelIds
        row == LastRow(c)
        in == Recorded(c)
        out == LeafFunctions \ in
    IN  /\ Entries(row) \ {0} = {ids[f] : f \in in}
        /\ Cardinality(in) = Cardinality(Entries(row) \ {0})
        /\ Cardinality(in) <= TopN
        /\ \A f \in in : MergedValue(c, f) # 0 /\ row.cost[ids[f]] = MergedValue(c, f)
        /\ \A f \in out : \A g \in in : MergedValue(c, f) <= MergedValue(c, g)
        /\ \A f \in out : MergedValue(c, f) # 0 => Cardinality(in) = TopN

\* C12 (as claimed): for each chart, the row a time stamp event appends has
\* as contributor entries exactly the up to 10 functions with the largest
\* nonzero merged value: every recorded value is nonzero and is the merged
\* value of its function, no function left out has a larger value than one
\* recorded, and a function with a nonzero value is left out only of a row
\* with 10 contributors.
C12_TopSelection ==
    [][(stamps' # stamps) => \A c \in ChartIds : TopSelected(c)']_vars

\* C13 (as claimed), for a trace that frees nothing and has its one time
\* stamp event after its last allocation: the live bytes only grow, so their
\* maximum over the allocation events and the time stamp event is the live
\* bytes at the event, and the row of the event in the live-bytes chart
\* holds that value at id 0.
C13_LiveBytesTotal ==
    \A i \in 2..Len(consumedChartData.rows) :
        consumedChartData.rows[i].cost[0] = leaked

\* the frames of a trace index from the leaf frame up the whole chain of
\* callers, a stop frame or not
RECURSIVE ChainOf(_)
ChainOf(traceIndex) ==
    IF traceIndex = 0 THEN <<>>
    ELSE LET trace == findTrace(traceIndex)
         IN  <<findIp(trace.ipIndex)>> \o ChainOf(trace.parentIndex)

\* the frames of a chain that lie behind its first stop frame
BehindStop(chain) ==
    {k \in 1..Len(chain) :
        \E s \in 1..(k - 1) : isStopIndex(strings, chain[s].functionIndex)}

\* the locations of the first n frames of a chain
ChainPath(chain, n) == [k \in 1..n |-> location(StringCache, chain[k])]

\* C14: after mergeAllocations, every allocation record has one bottom-up
\* row per frame of its chain from the leaf frame up to and including the
\* first stop frame (the row at that depth on the path of the frames'
\* locations) and none for a frame behind it, and a row of a stop function
\* has no children: no caller of a stop frame is below its row.
C14_BoundaryStop ==
    Merged =>
        /\ \A i \in 1..Len(allocations) :
              LET chain == ChainOf(allocations[i].traceIndex)
              IN  \A k \in 1..Len(chain) :
                      (k \notin BehindStop(chain)) <=>
                          (\E ptr \in RowsOf(bottomUpData) :
                               LocationPath(bottomUpData, ptr) = ChainPath(chain, k))
        /\ \A ptr \in RowsOf(bottomUpData) :
              rowAt(bottomUpData, ptr).location.function \in StopStrings =>
                  rowAt(bottomUpData, ptr).children = <<>>

\* C14 witness: a record whose chain goes on behind a stop frame has been
\* merged, and the row of the stop frame is in the forest below the row of
\* the leaf frame
C14_Witness ==
    /\ Merged
    /\ \E i \in 1..Len(allocations) :
          LET chain == ChainOf(allocations[i].traceIndex)
          IN  /\ BehindStop(chain) # {}
              /\ \E ptr \in RowsOf(bottomUpData) :
                    /\ Len(ptr) = 2
                    /\ LocationPath(bottomUpData, ptr) = ChainPath(chain, 2)
                    /\ rowAt(bottomUpData, ptr).location.function \in StopStrings

Reverse(s) == [k \in 1..Len(s) |-> s[Len(s) + 1 - k]]

\* the pointers to the rows without children of a forest, in the order in
\* which the rows are visited
RECURSIVE LeavesBelow(_, _, _)
LeavesBelow(rows, i, at) ==
    IF i > Len(rows) THEN <<>>
    ELSE (IF rows[i].children = <<>> THEN <<at \o <<i>>>>
          ELSE LeavesBelow(rows[i].children, 1, at \o <<i>>))
         \o LeavesBelow(rows, i + 1, at)

BottomUpLeaves == LeavesBelow(bottomUpData, 1, <<>>)

\* the top-down path of a bottom-up leaf: its bottom-up path reversed
ReversedPath(leaf) == Reverse(LocationPath(bottomUpData, leaf))

\* the sum of a cost field over the bottom-up rows a sequence of pointers
\* refers to
LeafSum(leaves, member) ==
    SumField([k \in 1..Len(leaves) |-> rowAt(bottomUpData, leaves[k])], member)

\* C15: once the top-down forest is built, every bottom-up row without
\* children has its top-down row at the path that is its bottom-up path
\* reversed (its own location at the top level, the location of its
\* top-level bottom-up ancestor last), and each cost field of every
\* top-down row is the sum of the field over exactly the bottom-up rows
\* without children whose reversed path starts with the path of the
\* top-down row.
C15_TopDownNodeCost ==
    Inverted =>
        /\ \A k \in 1..Len(BottomUpLeaves) :
              \E ptr \in RowsOf(topDownData) :
                  LocationPath(topDownData, ptr) = ReversedPath(BottomUpLeaves[k])
        /\ \A ptr \in RowsOf(topDownData) : \A m \in CostFields :
              LET path == LocationPath(topDownData, ptr)
                  Under(leaf) == IsPrefix(path, ReversedPath(leaf))
              IN  rowAt(topDownData, ptr)[m] =
                      LeafSum(SelectSeq(BottomUpLeaves, Under), m)

\* C15 witness: a top-down row holds the cost of two bottom-up leaves, which
\* lie below the top level of the bottom-up forest
C15_Witness ==
    /\ Inverted
    /\ \E ptr \in RowsOf(topDownData) :
          LET path == LocationPath(topDownData, ptr)
              Under(leaf) == IsPrefix(path, ReversedPath(leaf)) /\ Len(leaf) >= 2
          IN  /\ Len(SelectSeq(BottomUpLeaves, Under)) >= 2
              /\ rowAt(topDownData, ptr).peak > 0

\* a sibling vector is in ascending order of location
Ascending(rows) ==
    \A i \in 1..(Len(rows) - 1) : LocationLess(rows[i].location, rows[i + 1].location)

\* every sibling vector of a forest is in ascending order of location
AscendingForest(forest) ==
    /\ Ascending(forest)
    /\ \A ptr \in RowsOf(forest) : Ascending(rowAt(forest, ptr).children)

\* the first bottom-up leaf, in the order of the visit, whose reversed path
\* starts with path
FirstLeaf(path) ==
    CHOOSE k \in 1..Len(BottomUpLeaves) :
        /\ IsPrefix(path, ReversedPath(BottomUpLeaves[k]))
        /\ \A j \in 1..(k - 1) : ~IsPrefix(path, ReversedPath(BottomUpLeaves[j]))

\* every sibling vector of the top-down forest is in the order in which the
\* visit of the bottom-up leaves first reached its rows
AppendOrdered ==
    \A ptr \in RowsOf(topDownData) :
        LET siblings == SiblingsOf(topDownData, ptr)
            above == LocationPath(topDownData, SubSeq(ptr, 1, Len(ptr) - 1))
        IN  \A i, j \in 1..Len(siblings) :
                i < j => FirstLeaf(Append(above, siblings[i].location))
                             < FirstLeaf(Append(above, siblings[j].location))

\* C16 (as claimed): once built, every sibling vector (the top level and
\* the children of every row) of the bottom-up forest and of the top-down
\* forest is in ascending order of location.
C16_SiblingsAscending ==
    /\ Merged => AscendingForest(bottomUpData)
    /\ Inverted => AscendingForest(topDownData)

\* C16 (amended): once built, every sibling vector of the bottom-up forest
\* is in ascending order of location; every sibling vector of the top-down
\* forest is in the order in which its rows were appended, the order in
\* which the visit of the bottom-up leaves first reached them.
C16_BottomUpAscending ==
    /\ Merged => AscendingForest(bottomUpData)
    /\ Inverted => AppendOrdered

\* C16 witness: a record was merged in front of the row of an earlier
\* record, and the top-down forest built from it has a sibling vector that
\* is not in ascending order
C16_Witness ==
    /\ Inverted
    /\ ~AscendingForest(topDownData)
    /\ \E i, j \in 1..Len(allocations) :
          /\ i < j
          /\ StackOf(allocations[i].traceIndex) # <<>>
          /\ StackOf(allocations[j].traceIndex) # <<>>
          /\ LocationLess(StackOf(allocations[j].traceIndex)[1],
                          StackOf(allocations[i].traceIndex)[1])

\* no row of a forest holds less of a cost field than its children together
CoversChildren(forest) ==
    \A ptr \in RowsOf(forest) : \A m \in CostFields :
        rowAt(forest, ptr)[m] >= SumField(rowAt(forest, ptr).children, m)

\* C20: in the bottom-up forest and in the top-down forest, each of the
\* four cost fields of every row is at least the sum of the field over the
\* row's direct children.
C20_ParentCoversChildren ==
    CoversChildren(bottomUpData) /\ CoversChildren(topDownData)

\* C20 witness: both forests are built, a bottom-up row holds more than
\* its children together, and a top-down row has two children with a cost
C20_Witness ==
    /\ Inverted
    /\ \E ptr \in RowsOf(bottomUpData) :
          /\ rowAt(bottomUpData, ptr).children # <<>>
          /\ rowAt(bottomUpData, ptr).allocated
                 > SumField(rowAt(bottomUpData, ptr).children, "allocated")
    /\ \E ptr \in RowsOf(topDownData) :
          /\ Len(rowAt(topDownData, ptr).children) >= 2
          /\ SumField(rowAt(topDownData, ptr).children, "allocated") > 0

-----------------------------------------------------------------------------
(* Properties of the build of the bottom-up forest.                        *)

\* mergeAllocations is at work
Merging == pc \in {"for", "while"}

\* the walk of the current allocation has gone through more frames than the
\* trace table can give to a chain that ends
WalkEndless == Len(walkRows) > Len(TraceTable) + 1

\* C17 (as claimed): the walk of every allocation record ends: over a trace
\* table of n nodes a walk that ends goes through at most n frames and one
\* more for a reference it cannot follow, for no frame is met twice; then
\* the build goes on with the next allocation.
C17_WalkEnds ==
    Merging => ~WalkEndless

\* the steps of Parser::parse checked against each other: the forest the
\* loops leave is the forest mergeAllocations returns
WalkIsMerge ==
    pc = "topDown" =>
        bottomUpData = mergeAllocations(allocations,
                           [m_strings |-> m_strings, m_ipAddresses |-> EmptyHash],
                           strings).rows

\* the parent of every row of a forest is the row whose children hold it,
\* and a top-level row has no parent
ParentsLinked(forest) ==
    \A ptr \in RowsOf(forest) :
        rowAt(forest, ptr).parent = SubSeq(ptr, 1, Len(ptr) - 1)

\* no row of a forest has a parent yet
ParentsUnset(forest) ==
    \A ptr \in RowsOf(forest) : rowAt(forest, ptr).parent = nullptr

\* C18: while mergeAllocations inserts rows no parent link is set and the
\* top-down forest is not begun; in the bottom-up forest it returns and in
\* the top-down forest toTopDownData returns, a top-level row has no parent
\* and the parent of every other row is the row whose children hold it; and
\* whenever the top-down forest has rows, the bottom-up links are so set.
C18_ParentLinks ==
    /\ Merging => ParentsUnset(bottomUpData) /\ topDownData = <<>>
    /\ Merged => ParentsLinked(bottomUpData)
    /\ Inverted => ParentsLinked(topDownData)
    /\ topDownData # <<>> => ParentsLinked(bottomUpData)

\* C18 witness: both forests are returned, each with a row below the top
\* level, and a later record was inserted in front of the row of an earlier
\* one, which moved that row
C18_Witness ==
    /\ Inverted
    /\ \E ptr \in RowsOf(bottomUpData) :
          Len(ptr) = 2 /\ rowAt(bottomUpData, ptr).parent # nullptr
    /\ \E ptr \in RowsOf(topDownData) :
          Len(ptr) = 2 /\ rowAt(topDownData, ptr).parent # nullptr
    /\ \E i, j \in 1..Len(allocations) :
          /\ i < j
          /\ LocationLess(StackOf(allocations[j].traceIndex)[1],
                          StackOf(allocations[i].traceIndex)[1])

-----------------------------------------------------------------------------
(* Properties of the string cache.                                         *)

\* all strings a frame record refers to are in the cache
Cached(ip) == ipStrings(ip) <= Len(m_strings)

\* the step leaves the location of a frame record as it is
LocationKept(ip) == location(StringCache', ip) = location(StringCache, ip)

\* a string of a frame record that the cache does not hold resolves to the
\* empty string
Placeholders(ip) ==
    /\ ip.functionIndex > Len(m_strings) => location(StringCache, ip).function = ""
    /\ ip.fileIndex > Len(m_strings) => location(StringCache, ip).file = ""
    /\ ip.moduleIndex > Len(m_strings) => location(StringCache, ip).module = ""

\* C19 (as claimed): the cached strings are always a prefix of the string
\* table, and whatever strings are appended and whenever the cache is
\* updated, every step of the pass leaves the location the frame record of
\* a known allocation resolves to as it is, so resolving it at any two
\* points of the pass returns equal locations.
C19_LocationStable ==
    [][/\ IsPrefix(m_strings', strings')
       /\ \A i \in 1..Len(allocations) : LocationKept(chartIp(allocations[i]))
      ]_vars

\* C19 (amended): the cached strings are always a prefix of the string
\* table, and every step of the pass leaves the location of a frame record
\* as it is once all strings the record refers to are in the cache; a
\* record that refers to a string the cache does not hold yet resolves to
\* the empty string in its place until an update brings the string in.
C19_CachedLocationStable ==
    [][/\ IsPrefix(m_strings', strings')
       /\ \A k \in 1..Len(IpTable) : Cached(IpTable[k]) => LocationKept(IpTable[k])
       /\ \A k \in 1..Len(IpTable) : Placeholders(IpTable[k])'
      ]_vars

\* C19 witness: a frame was resolved at a first time stamp event, strings
\* were appended and a second event has updated the cache
C19_Witness ==
    /\ Len(stamps) = 2
    /\ Len(m_strings) = Len(StringTable)
    /\ Entries(allocatedChartData.rows[2]) = {0, 1}
    /\ Cardinality(Entries(allocatedChartData.rows[3])) > 2

====
